---- MODULE Spec2Model ----
(***************************************************************************)
(* Offline-first synchronisation core of the dental clinic system:        *)
(* LocalCache (SQLite), SyncQueue, BatchSync, ConflictHandler,            *)
(* SyncManager and the ClientManager domain module that feeds them.       *)
(*                                                                         *)
(* Dictionaries are functions from column names to values, so that         *)
(* stripping the bookkeeping columns (clean_data) is a real operation.    *)
(* An ISO timestamp string is a record [t, aware]: t is the instant and   *)
(* aware tells whether the string carries an offset ('Z' / '+00:00');     *)
(* datetime.utcnow().isoformat() produces strings without one.            *)
(* Optional values are sequences of length 0 (None) or 1.                 *)
(***************************************************************************)
EXTENDS Integers, Sequences, FiniteSets, TLC

\* ---- bounds of the model ----
MaxRec == 1
MaxClock == 4
MaxQueue == 3
MaxVal == 1
MaxAudit == 2
MaxOps == 2

Ids == 1..MaxRec
Vals == 1..MaxVal
\* threads that may call SyncManager.sync_all
Callers == {"t1", "t2"}

None == << >>
Some(x) == <<x>>

VARIABLES
    schemaOk,    \* does the sync_queue table of the database file have an updated_at column
    remoteAware, \* does the remote store return updated_at with an offset (timestamptz column)
    online,      \* network_monitor.is_online() / the remote store is reachable
    clock,       \* datetime.utcnow()
    nextRec,     \* next fresh record uuid
    nextQ,       \* next fresh queue uuid (also the rowid order of sync_queue)
    local,       \* LocalCache table 'clients': id -> None | Some(row)
    remote,      \* remote table 'clients': id -> None | Some(row)
    queue,       \* LocalCache table 'sync_queue' in rowid order
    audit,       \* conflict_audit entries (remote and local fallback)
    is_syncing,  \* SyncManager.is_syncing
    pc,          \* position of each sync_all caller
    work,        \* operations a caller's pass still has to process
    log,         \* the operations a caller's pass has sent to the remote store so far
    ret,         \* return value of the handler that ran last
    by_table,    \* sync_all: the fetched operations grouped by table, one batch per table
    outcomes,    \* sync_all: what sync_table did for each table processed so far
    results,     \* sync_all: the results dictionary
    conn,        \* LocalCache._connection: the one sqlite3 connection all threads share
    tpc,         \* position of each thread that uses the connection statement by statement
    tloc         \* local variables of those threads

vars == <<schemaOk, remoteAware, online, clock, nextRec, nextQ, local, remote, queue, audit,
          is_syncing, pc, work, log, ret, by_table, outcomes, results, conn, tpc, tloc>>

aggVars == <<by_table, outcomes, results>>

txVars == <<conn, tpc, tloc>>

\* threads that use the connection statement by statement: a domain write and a sync pass
Threads == {"writer", "syncer"}

\* results = {'synced': 0, 'failed': 0, 'conflicts': 0, 'errors': []}; of the error
\* strings the model keeps their number
NoResults == [synced |-> 0, failed |-> 0, conflicts |-> 0, errors |-> 0]

\* no transaction is open on the connection
ConnIdle == [in_transaction |-> FALSE, saved |-> << >>, dirty |-> {}]

NoRet == [op |-> "none"]

\* ---- timestamps ----
Ts(t, aware) == [t |-> t, aware |-> aware]

utcnow_isoformat == Ts(clock, FALSE)

\* datetime comparison of two parsed strings: comparing an offset-naive with an
\* offset-aware datetime raises TypeError
CompareRaises(a, b) == a.aware # b.aware

\* a string datetime.fromisoformat rejects (ValueError); its instant is written -1
Unparsable == Ts(-1, FALSE)

Parses(ts) == ts.t >= 0

\* ---- dictionaries ----
sync_fields == {"pending_sync", "sync_status", "original_data", "last_synced_at"}

\* the snapshot sent as it is
clean_data_m(d) == d

\* {k: v for k, v in local_data.items() if k not in sync_fields}
clean_data(d) == [k \in (DOMAIN d) \ sync_fields |-> d[k]]

\* {**a, **b}
Merge(a, b) == [k \in (DOMAIN a) \cup (DOMAIN b) |-> IF k \in DOMAIN b THEN b[k] ELSE a[k]]

\* json.dumps(x) if x else None
json_dumps_opt(o) == IF o = None \/ DOMAIN o[1] = {} THEN None ELSE o

\* ---- LocalCache: domain table ----
\* the dictionary as LocalCache.insert leaves it (insert mutates its argument)
insert_data(data, mark_pending) ==
    IF mark_pending
    THEN Merge(data, [pending_sync |-> 1, sync_status |-> "pending"])
    ELSE data

\* INSERT OR REPLACE: columns that are not given take the schema defaults.  Of a domain
\* row the model keeps id, the payload and the two sync columns; its updated_at is
\* written but never read back into a snapshot (update_data always overrides it).
RowOf(d) ==
    [id |-> d.id, val |-> d.val,
     pending_sync |-> IF "pending_sync" \in DOMAIN d THEN d.pending_sync ELSE 0,
     sync_status |-> IF "sync_status" \in DOMAIN d THEN d.sync_status ELSE "synced"]

lc_insert(loc, data, mark_pending) ==
    [loc EXCEPT ![data.id] = Some(RowOf(insert_data(data, mark_pending)))]

\* UPDATE ... WHERE id = ?: stamps updated_at, marks pending when asked and the row exists
lc_update(loc, id, data, mark_pending) ==
    IF loc[id] = None THEN loc
    ELSE LET d1 == Merge(data, [updated_at |-> utcnow_isoformat])
             d2 == IF mark_pending
                   THEN Merge(d1, [pending_sync |-> 1, sync_status |-> "pending"])
                   ELSE d1
             cols == [k \in (DOMAIN d2) \cap (DOMAIN loc[id][1]) |-> d2[k]]
         IN [loc EXCEPT ![id] = Some(Merge(loc[id][1], cols))]

lc_delete(loc, id) == [loc EXCEPT ![id] = None]

\* ---- LocalCache: sync_queue table ----
QIds(q) == {q[i].id : i \in 1..Len(q)}

QIndex(q, id) == CHOOSE i \in 1..Len(q) : q[i].id = id

QEntry(q, id) == q[QIndex(q, id)]

QStatus(q, id) == IF id \in QIds(q) THEN QEntry(q, id).status ELSE "absent"

\* LocalCache.mark_synced, second half: every queue row of the record becomes 'synced'
lc_mark_synced_queue(q, table, record_id) ==
    [i \in 1..Len(q) |->
        IF q[i].table_name = table /\ q[i].record_id = record_id
        THEN [q[i] EXCEPT !.status = "synced"]
        ELSE q[i]]

\* LocalCache.mark_synced, first half: the domain row
lc_mark_synced_row(loc, record_id) ==
    lc_update(loc, record_id, [pending_sync |-> 0, sync_status |-> "synced"], FALSE)

\* SyncQueue.mark_synced: UPDATE sync_queue SET status = 'synced' WHERE id = ?
sq_mark_synced(q, queue_id) ==
    [i \in 1..Len(q) |->
        IF q[i].id = queue_id THEN [q[i] EXCEPT !.status = "synced"] ELSE q[i]]

\* SyncQueue.mark_conflict
sq_mark_conflict(q, queue_id, remote_data) ==
    [i \in 1..Len(q) |->
        IF q[i].id = queue_id
        THEN [q[i] EXCEPT !.status = "conflict",
                          !.remote_data = IF json_dumps_opt(remote_data) = None
                                          THEN @ ELSE remote_data]
        ELSE q[i]]

\* SyncQueue.remove_operation
remove_operation(q, queue_id) == SelectSeq(q, LAMBDA e : e.id # queue_id)

\* the row SyncQueue.add_operation / LocalCache._add_to_sync_queue builds
queue_item(id, table, record_id, operation, local_data) ==
    [id |-> id, table_name |-> table, record_id |-> record_id,
     operation |-> operation, local_data |-> json_dumps_opt(local_data),
     remote_data |-> None, status |-> "pending"]

Take(s, n) == IF n = 0 \/ n >= Len(s) THEN s ELSE SubSeq(s, 1, n)

\* get_pending_operations with the table filter replacing the status filter
get_pending_operations_m(q, table, limit) ==
    Take(SelectSeq(q, LAMBDA e : IF table = "" THEN e.status = "pending"
                                               ELSE e.table_name = table),
         limit)

\* SyncQueue.get_pending_operations(table, limit); "" and 0 stand for "not given"
get_pending_operations(q, table, limit) ==
    Take(SelectSeq(q, LAMBDA e : e.status = "pending" /\ (table = "" \/ e.table_name = table)),
         limit)

get_conflicts(q) == SelectSeq(q, LAMBDA e : e.status = "conflict")


\* ---- remote store (PostgREST semantics of the calls the code makes) ----
\* the store returns updated_at in the format of its column
Stored(d) ==
    IF "updated_at" \in DOMAIN d
    THEN Merge(d, [updated_at |-> Ts(d.updated_at.t, remoteAware)])
    ELSE d

\* insert(d): the row did not exist
remote_insert(rem, d) == [rem EXCEPT ![d.id] = Some(Stored(d))]

\* update(d).eq('id', id): changes the columns given, returns the rows it changed
remote_update(rem, id, d) ==
    IF rem[id] = None THEN rem ELSE [rem EXCEPT ![id] = Some(Merge(rem[id][1], Stored(d)))]

remote_delete(rem, id) == [rem EXCEPT ![id] = None]

\* ---- initial state: stores empty, NetworkMonitor._is_online = True ----
\* _initialize_database creates sync_queue without an updated_at column, but only IF NOT
\* EXISTS: a database file that already has the table keeps its columns (schemaOk).
\* The remote column type decides the form of the updated_at strings it returns (remoteAware).
Init ==
    /\ schemaOk \in BOOLEAN
    /\ remoteAware \in BOOLEAN
    /\ online = TRUE
    /\ clock = 1
    /\ nextRec = 1
    /\ nextQ = 1
    /\ local = [i \in Ids |-> None]
    /\ remote = [i \in Ids |-> None]
    /\ queue = << >>
    /\ audit = << >>
    /\ is_syncing = FALSE
    /\ pc = [c \in Callers |-> "idle"]
    /\ work = [c \in Callers |-> << >>]
    /\ log = [c \in Callers |-> << >>]
    /\ ret = NoRet
    /\ by_table = << >>
    /\ outcomes = << >>
    /\ results = NoResults
    /\ conn = ConnIdle
    /\ tpc = [t \in Threads |-> "idle"]
    /\ tloc = [t \in Threads |-> << >>]

syncVars == <<is_syncing, pc, work, log>>

\* ---- ClientManager ----
\* ClientManager.create
ClientCreate(v) ==
    /\ nextRec <= MaxRec
    /\ clock < MaxClock
    /\ (~online /\ schemaOk) => nextQ <= MaxQueue
    /\ LET id == nextRec
           client_data == [id |-> id, val |-> v, updated_at |-> utcnow_isoformat]
       IN IF online
          THEN /\ remote' = remote_insert(remote, client_data)
               /\ local' = lc_insert(local, client_data, FALSE)
               /\ UNCHANGED <<queue, nextQ>>
               /\ ret' = [op |-> "create", id |-> id, offline |-> FALSE, ok |-> TRUE]
          ELSE /\ local' = lc_insert(local, client_data, TRUE)
               /\ UNCHANGED remote
               /\ IF schemaOk
                  THEN /\ queue' = Append(queue, queue_item(nextQ, "clients", id, "create",
                                              Some(insert_data(client_data, TRUE))))
                       /\ nextQ' = nextQ + 1
                       /\ ret' = [op |-> "create", id |-> id, offline |-> TRUE, ok |-> TRUE]
                  ELSE /\ UNCHANGED <<queue, nextQ>>
                       /\ ret' = [op |-> "create", id |-> id, offline |-> TRUE, ok |-> FALSE]
    /\ nextRec' = nextRec + 1
    /\ clock' = clock + 1
    /\ UNCHANGED <<schemaOk, remoteAware, aggVars, txVars, online, audit, syncVars>>

\* ClientManager.get: the local row, else (online) the remote row, which it caches
client_get(id) ==
    IF local[id] # None THEN local[id]
    ELSE IF online /\ remote[id] # None THEN remote[id]
    ELSE None

local_after_get(id) ==
    IF local[id] = None /\ online /\ remote[id] # None
    THEN lc_insert(local, remote[id][1], FALSE)
    ELSE local

ClientGet(id) ==
    /\ id < nextRec
    /\ local_after_get(id) # local
    /\ local' = local_after_get(id)
    /\ ret' = [op |-> "get", id |-> id, offline |-> ~online, ok |-> TRUE]
    /\ UNCHANGED <<schemaOk, remoteAware, aggVars, txVars, online, clock, nextRec, nextQ, remote, queue, audit, syncVars>>

\* ClientManager.update
ClientUpdate(id, v) ==
    /\ id < nextRec
    /\ clock < MaxClock
    /\ (~online /\ schemaOk) => nextQ <= MaxQueue
    /\ client_get(id) # None
    /\ LET existing == client_get(id)
           loc1 == local_after_get(id)
           update_data == [updated_at |-> utcnow_isoformat, val |-> v]
       IN IF online
          THEN IF remote[id] = None
               THEN /\ local' = loc1
                    /\ UNCHANGED <<remote, queue, nextQ, clock>>
                    /\ ret' = [op |-> "update", id |-> id, offline |-> FALSE, ok |-> FALSE]
               ELSE /\ remote' = remote_update(remote, id, update_data)
                    /\ local' = lc_update(loc1, id, update_data, FALSE)
                    /\ clock' = clock + 1
                    /\ UNCHANGED <<queue, nextQ>>
                    /\ ret' = [op |-> "update", id |-> id, offline |-> FALSE, ok |-> TRUE]
          ELSE /\ local' = lc_update(local, id, update_data, TRUE)
               /\ clock' = clock + 1
               /\ UNCHANGED remote
               /\ IF schemaOk
                  THEN /\ queue' = Append(queue, queue_item(nextQ, "clients", id, "update",
                                              Some(Merge(existing[1], update_data))))
                       /\ nextQ' = nextQ + 1
                       /\ ret' = [op |-> "update", id |-> id, offline |-> TRUE, ok |-> TRUE]
                  ELSE /\ UNCHANGED <<queue, nextQ>>
                       /\ ret' = [op |-> "update", id |-> id, offline |-> TRUE, ok |-> FALSE]
    /\ UNCHANGED <<schemaOk, remoteAware, aggVars, txVars, online, nextRec, audit, syncVars>>

\* ClientManager.delete; LocalCache.delete(mark_pending=True) queues a delete of its
\* own before it removes the row, and ClientManager.delete queues a second one
ClientDelete(id) ==
    /\ id < nextRec
    /\ (~online /\ schemaOk) => nextQ + 1 <= MaxQueue
    /\ IF online
       THEN /\ remote' = remote_delete(remote, id)
            /\ local' = lc_delete(local, id)
            /\ UNCHANGED <<queue, nextQ>>
            /\ ret' = [op |-> "delete", id |-> id, offline |-> FALSE, ok |-> TRUE]
       ELSE IF schemaOk
       THEN /\ queue' = queue \o << queue_item(nextQ, "clients", id, "delete", None),
                                    queue_item(nextQ + 1, "clients", id, "delete", None) >>
            /\ nextQ' = nextQ + 2
            /\ local' = lc_delete(local, id)
            /\ UNCHANGED remote
            /\ ret' = [op |-> "delete", id |-> id, offline |-> TRUE, ok |-> TRUE]
       ELSE /\ UNCHANGED <<local, remote, queue, nextQ>>
            /\ ret' = [op |-> "delete", id |-> id, offline |-> TRUE, ok |-> FALSE]
    /\ UNCHANGED <<schemaOk, remoteAware, aggVars, txVars, online, clock, nextRec, audit, syncVars>>

\* ---- ClientManager when the LocalCache transaction of the call fails ----
\* (sqlite3 error inside 'with self.transaction()': rollback, re-raise; the handler's
\* except returns failure)
ClientCreateLocalFails(v) ==
    /\ nextRec <= MaxRec
    /\ clock < MaxClock
    /\ LET id == nextRec
           client_data == [id |-> id, val |-> v, updated_at |-> utcnow_isoformat]
       IN IF online
          THEN /\ remote' = remote_insert(remote, client_data)
               /\ nextRec' = nextRec + 1
               /\ clock' = clock + 1
               /\ ret' = [op |-> "create", id |-> id, offline |-> FALSE, ok |-> FALSE,
                          local_failed |-> TRUE]
          ELSE /\ UNCHANGED <<remote, nextRec, clock>>
               /\ ret' = [op |-> "create", id |-> id, offline |-> TRUE, ok |-> FALSE,
                          local_failed |-> TRUE]
    /\ UNCHANGED <<schemaOk, remoteAware, aggVars, txVars, online, nextQ, local, queue, audit, syncVars>>

ClientUpdateLocalFails(id, v) ==
    /\ id < nextRec
    /\ clock < MaxClock
    /\ local[id] # None
    /\ LET update_data == [updated_at |-> utcnow_isoformat, val |-> v]
       IN IF online /\ remote[id] # None
          THEN /\ remote' = remote_update(remote, id, update_data)
               /\ clock' = clock + 1
               /\ ret' = [op |-> "update", id |-> id, offline |-> FALSE, ok |-> FALSE,
                          local_failed |-> TRUE]
          ELSE /\ ~online
               /\ UNCHANGED <<remote, clock>>
               /\ ret' = [op |-> "update", id |-> id, offline |-> TRUE, ok |-> FALSE,
                          local_failed |-> TRUE]
    /\ UNCHANGED <<schemaOk, remoteAware, aggVars, txVars, online, nextRec, nextQ, local, queue, audit, syncVars>>

\* offline, LocalCache.delete(mark_pending=True) has committed its own 'delete' entry
\* (_add_to_sync_queue) before the DELETE statement fails
ClientDeleteLocalFails(id) ==
    /\ id < nextRec
    /\ local[id] # None
    /\ (~online /\ schemaOk) => nextQ <= MaxQueue
    /\ IF online
       THEN /\ remote' = remote_delete(remote, id)
            /\ UNCHANGED <<queue, nextQ>>
            /\ ret' = [op |-> "delete", id |-> id, offline |-> FALSE, ok |-> FALSE,
                       local_failed |-> TRUE]
       ELSE IF schemaOk
       THEN /\ queue' = Append(queue, queue_item(nextQ, "clients", id, "delete", None))
            /\ nextQ' = nextQ + 1
            /\ UNCHANGED remote
            /\ ret' = [op |-> "delete", id |-> id, offline |-> TRUE, ok |-> FALSE,
                       local_failed |-> TRUE]
       ELSE /\ UNCHANGED <<remote, queue, nextQ>>
            /\ ret' = [op |-> "delete", id |-> id, offline |-> TRUE, ok |-> FALSE,
                       local_failed |-> FALSE]
    /\ UNCHANGED <<schemaOk, remoteAware, aggVars, txVars, online, clock, nextRec, local, audit, syncVars>>

\* ---- environment ----
\* NetworkMonitor._monitor_loop: connectivity comes and goes
NetworkChange ==
    /\ online' = ~online
    /\ ret' = NoRet
    /\ UNCHANGED <<schemaOk, remoteAware, aggVars, txVars, clock, nextRec, nextQ, local, remote, queue, audit, syncVars>>

\* the snapshots a caller of SyncQueue.add_operation can pass for a record: none, one
\* without updated_at, one whose updated_at does not parse
Snapshots(id) ==
    {None} \cup {Some([id |-> id, val |-> v]) : v \in Vals}
           \cup {Some([id |-> id, val |-> v, updated_at |-> Unparsable]) : v \in Vals}

\* SyncQueue.add_operation(table, record_id, operation, local_data) called with a
\* snapshot the caller built
AddOperation(operation, id, local_data) ==
    /\ schemaOk
    /\ id < nextRec
    /\ nextQ <= MaxQueue
    /\ queue' = Append(queue, queue_item(nextQ, "clients", id, operation, local_data))
    /\ nextQ' = nextQ + 1
    /\ ret' = [op |-> "add_operation", id |-> nextQ]
    /\ UNCHANGED <<schemaOk, remoteAware, aggVars, txVars, online, clock, nextRec, local, remote,
                   audit, syncVars>>

\* another writer leaves a record of the remote store without updated_at (NULL), or with
\* one that the store returns in a form fromisoformat rejects
RemoteStamp(id, missing) ==
    /\ remote[id] # None
    /\ LET row == remote[id][1]
       IN remote' = [remote EXCEPT ![id] =
                        Some(IF missing
                             THEN [k \in (DOMAIN row) \ {"updated_at"} |-> row[k]]
                             ELSE Merge(row, [updated_at |-> Unparsable]))]
    /\ remote' # remote
    /\ ret' = NoRet
    /\ UNCHANGED <<schemaOk, remoteAware, aggVars, txVars, online, clock, nextRec, nextQ, local,
                   queue, audit, syncVars>>

\* another client instance writes a record of the remote store, stamped with the current time
RemoteEdit(id, v) ==
    /\ remote[id] # None
    /\ remote' = remote_update(remote, id, [val |-> v, updated_at |-> utcnow_isoformat])
    /\ remote' # remote
    /\ ret' = NoRet
    /\ UNCHANGED <<schemaOk, remoteAware, aggVars, txVars, online, clock, nextRec, nextQ, local, queue, audit,
                   syncVars>>


\* ---- ConflictHandler.check_conflict ----
\* a check that reports a conflict whenever the remote record exists
check_conflict_m(record_id, local_data) ==
    IF ~online THEN None
    ELSE IF remote[record_id] = None THEN None
    ELSE Some([type |-> "timestamp_conflict", local_data |-> local_data,
               remote_data |-> remote[record_id][1]])

\* any exception (remote unreachable, TypeError of the comparison) is caught: None
check_conflict(record_id, local_data) ==
    IF ~online THEN None
    ELSE IF remote[record_id] = None THEN None
    ELSE LET remote_data == remote[record_id][1]
         IN IF "updated_at" \notin DOMAIN local_data \/ "updated_at" \notin DOMAIN remote_data
            THEN None
            ELSE IF ~Parses(local_data.updated_at) \/ ~Parses(remote_data.updated_at)
            THEN None
            ELSE IF CompareRaises(local_data.updated_at, remote_data.updated_at) THEN None
            ELSE IF remote_data.updated_at.t > local_data.updated_at.t
            THEN Some([type |-> "timestamp_conflict",
                       local_data |-> local_data,
                       remote_data |-> remote_data,
                       local_updated |-> local_data.updated_at,
                       remote_updated |-> remote_data.updated_at])
            ELSE None

\* ---- BatchSync ----
NoEffect(outcome) ==
    [remote |-> remote, local |-> local, queue |-> queue, outcome |-> outcome]

\* mark_both without the call of local_cache.mark_synced: only the entry is marked
mark_both_m(rem, record_id, op) ==
    [remote |-> rem,
     local |-> local,
     queue |-> IF schemaOk THEN sq_mark_synced(queue, op.id) ELSE queue,
     outcome |-> IF schemaOk THEN "ok" ELSE "raised"]

\* local_cache.mark_synced(table, record_id) then sync_queue.mark_synced(op['id']);
\* the second is an UPDATE that stamps updated_at and raises when sync_queue has no such column
mark_both(rem, record_id, op) ==
    [remote |-> rem,
     local |-> lc_mark_synced_row(local, record_id),
     queue |-> IF schemaOk
               THEN sq_mark_synced(lc_mark_synced_queue(queue, op.table_name, record_id), op.id)
               ELSE lc_mark_synced_queue(queue, op.table_name, record_id),
     outcome |-> IF schemaOk THEN "ok" ELSE "raised"]

\* one iteration of the loop of BatchSync._batch_create
batch_create_one(op) ==
    IF op.local_data = None THEN NoEffect("skipped")
    ELSE LET local_data == op.local_data[1]
             cd == clean_data(local_data)
         IN IF ~online \/ remote[cd.id] # None THEN NoEffect("raised")
            ELSE mark_both(remote_insert(remote, cd), local_data.id, op)

\* one iteration of the loop of BatchSync._batch_update
batch_update_one(op) ==
    IF op.local_data = None THEN NoEffect("skipped")
    ELSE LET local_data == op.local_data[1]
             conflict == check_conflict(op.record_id, local_data)
         IN IF conflict # None
            THEN IF schemaOk
                 THEN [remote |-> remote, local |-> local,
                       queue |-> sq_mark_conflict(queue, op.id, Some(conflict[1].remote_data)),
                       outcome |-> "conflict"]
                 ELSE NoEffect("raised")
            ELSE IF ~online THEN NoEffect("raised")
            ELSE IF remote[op.record_id] = None THEN NoEffect("rejected")
            ELSE mark_both(remote_update(remote, op.record_id, clean_data(local_data)),
                           op.record_id, op)

\* _batch_delete removing the entry in the except branch as well
batch_delete_one_m(op) ==
    IF ~online
    THEN [remote |-> remote, local |-> local,
          queue |-> remove_operation(queue, op.id), outcome |-> "raised"]
    ELSE [remote |-> remote_delete(remote, op.record_id), local |-> local,
          queue |-> remove_operation(queue, op.id), outcome |-> "ok"]

\* one iteration of the loop of BatchSync._batch_delete
batch_delete_one(op) ==
    IF ~online THEN NoEffect("raised")
    ELSE [remote |-> remote_delete(remote, op.record_id), local |-> local,
          queue |-> remove_operation(queue, op.id), outcome |-> "ok"]

\* the list comprehension of sync_table yielding the group back to front
OfType_m(ops, t) ==
    LET sel == SelectSeq(ops, LAMBDA op : op.operation = t)
    IN [i \in 1..Len(sel) |-> sel[Len(sel) + 1 - i]]

\* [op for op in operations if op['operation'] == t]
OfType(ops, t) == SelectSeq(ops, LAMBDA op : op.operation = t)

\* sync_table with the three groups processed in the opposite order
sync_table_order_m(ops) == OfType(ops, "delete") \o OfType(ops, "update") \o OfType(ops, "create")

\* BatchSync.sync_table: creates, then updates, then deletes
sync_table_order(ops) == OfType(ops, "create") \o OfType(ops, "update") \o OfType(ops, "delete")

RECURSIVE by_table_order(_)
\* SyncManager.sync_all: group by table (dict order = first occurrence), one batch per table
by_table_order(ops) ==
    IF ops = << >> THEN << >>
    ELSE LET t == ops[1].table_name
         IN sync_table_order(SelectSeq(ops, LAMBDA op : op.table_name = t))
            \o by_table_order(SelectSeq(ops, LAMBDA op : op.table_name # t))

Sends == {"ok", "rejected", "raised"}

\* what one iteration of a batch loop adds to the results of its _batch_ method
step_results(outcome) ==
    [synced |-> IF outcome = "ok" THEN 1 ELSE 0,
     failed |-> IF outcome \in {"rejected", "raised"} THEN 1 ELSE 0,
     conflicts |-> IF outcome = "conflict" THEN 1 ELSE 0,
     errors |-> IF outcome \in {"rejected", "raised"} THEN 1 ELSE 0]

\* the fields of a fetched operation that the batch loops read
Fetched(ops) ==
    [i \in 1..Len(ops) |->
        [id |-> ops[i].id, table_name |-> ops[i].table_name, record_id |-> ops[i].record_id,
         operation |-> ops[i].operation, local_data |-> ops[i].local_data]]

\* ---- SyncManager.sync_all, one thread per caller ----
\* the guard with a busy return that also clears the flag
SyncAllGuard_m(c, force) ==
    /\ pc[c] = "idle"
    /\ IF is_syncing /\ ~force
       THEN /\ ret' = [op |-> "sync_all", status |-> "busy"]
            /\ is_syncing' = FALSE
            /\ UNCHANGED pc
       ELSE /\ pc' = [pc EXCEPT ![c] = "passed"]
            /\ ret' = NoRet
            /\ UNCHANGED is_syncing
    /\ UNCHANGED <<schemaOk, remoteAware, aggVars, txVars, online, clock, nextRec, nextQ, local, remote, queue, audit,
                   work, log>>

\* the guard: if self.is_syncing and not force: return busy
SyncAllGuard(c, force) ==
    /\ pc[c] = "idle"
    /\ IF is_syncing /\ ~force
       THEN /\ ret' = [op |-> "sync_all", status |-> "busy"]
            /\ UNCHANGED pc
       ELSE /\ pc' = [pc EXCEPT ![c] = "passed"]
            /\ ret' = NoRet
    /\ UNCHANGED <<schemaOk, remoteAware, aggVars, txVars, online, clock, nextRec, nextQ, local, remote, queue, audit,
                   is_syncing, work, log>>

\* self.is_syncing = True; pending_ops = get_pending_operations(); group by table
SyncAllStart(c) ==
    /\ pc[c] = "passed"
    /\ is_syncing' = TRUE
    /\ work' = [work EXCEPT ![c] = Fetched(by_table_order(get_pending_operations(queue, "", 0)))]
    /\ log' = [log EXCEPT ![c] = << >>]
    /\ pc' = [pc EXCEPT ![c] = "run"]
    /\ ret' = [op |-> "sync_all", status |-> "started"]
    /\ UNCHANGED <<schemaOk, remoteAware, aggVars, txVars, online, clock, nextRec, nextQ, local, remote, queue, audit>>

\* sync_queue.get_pending_operations() raises (the local database cannot be read):
\* the outer except records status 'error'
SyncAllStartRaises(c) ==
    /\ pc[c] = "passed"
    /\ is_syncing' = TRUE
    /\ work' = [work EXCEPT ![c] = << >>]
    /\ log' = [log EXCEPT ![c] = << >>]
    /\ pc' = [pc EXCEPT ![c] = "failed"]
    /\ ret' = [op |-> "sync_all", status |-> "fetch_raised"]
    /\ UNCHANGED <<schemaOk, remoteAware, aggVars, txVars, online, clock, nextRec, nextQ, local, remote, queue, audit>>

SyncEffect(op) ==
    IF op.operation = "create" THEN batch_create_one(op)
    ELSE IF op.operation = "update" THEN batch_update_one(op)
    ELSE batch_delete_one(op)

\* the batch loops: the next operation of the caller's pass
SyncStep(c) ==
    /\ pc[c] = "run"
    /\ work[c] # << >>
    /\ LET op == Head(work[c])
           eff == SyncEffect(op)
       IN /\ remote' = eff.remote
          /\ local' = eff.local
          /\ queue' = eff.queue
          /\ log' = [log EXCEPT ![c] = IF eff.outcome \in Sends
                                         THEN Append(@, [id |-> op.id, record_id |-> op.record_id,
                                                         operation |-> op.operation])
                                         ELSE @]
          /\ ret' = [op |-> "sync_step", caller |-> c, id |-> op.id,
                     record_id |-> op.record_id, operation |-> op.operation,
                     outcome |-> eff.outcome]
    /\ work' = [work EXCEPT ![c] = Tail(@)]
    /\ UNCHANGED <<schemaOk, remoteAware, aggVars, txVars, online, clock, nextRec, nextQ, audit, is_syncing, pc>>

\* the create at the head of the pass reaches the remote store, which applies it, but
\* execute() raises before the response arrives (timeout): the except branch counts a
\* failure and neither mark_synced call runs
SyncStepLost(c) ==
    /\ pc[c] = "run"
    /\ work[c] # << >>
    /\ LET op == Head(work[c])
       IN /\ op.operation = "create"
          /\ op.local_data # None
          /\ online
          /\ remote[op.record_id] = None
          /\ remote' = remote_insert(remote, clean_data(op.local_data[1]))
          /\ log' = [log EXCEPT ![c] = Append(@, [id |-> op.id, record_id |-> op.record_id,
                                                  operation |-> op.operation])]
          /\ ret' = [op |-> "sync_step", caller |-> c, id |-> op.id,
                     record_id |-> op.record_id, operation |-> op.operation,
                     outcome |-> "raised"]
    /\ work' = [work EXCEPT ![c] = Tail(@)]
    /\ UNCHANGED <<schemaOk, remoteAware, aggVars, txVars, online, clock, nextRec, nextQ, local, queue, audit,
                   is_syncing, pc>>

\* supabase_manager.client raises at the head of a _batch_ method (no client can be
\* created): sync_table raises, sync_all counts the table's operations as failed
SyncTableRaises(c) ==
    /\ pc[c] = "run"
    /\ work[c] # << >>
    /\ ~online
    /\ work' = [work EXCEPT ![c] = SelectSeq(@, LAMBDA op : op.table_name # Head(work[c]).table_name)]
    /\ ret' = [op |-> "sync_table", caller |-> c, status |-> "raised"]
    /\ UNCHANGED <<schemaOk, remoteAware, aggVars, txVars, online, clock, nextRec, nextQ, local, remote, queue, audit,
                   is_syncing, pc, log>>

\* a finally block that is only reached on the normal path
SyncAllFinally_m(c) ==
    /\ \/ pc[c] = "run" /\ work[c] = << >>
       \/ pc[c] = "failed"
    /\ is_syncing' = IF pc[c] = "failed" THEN is_syncing ELSE FALSE
    /\ pc' = [pc EXCEPT ![c] = "idle"]
    /\ log' = [log EXCEPT ![c] = << >>]
    /\ ret' = [op |-> "sync_all", status |-> IF pc[c] = "failed" THEN "error" ELSE "completed"]
    /\ UNCHANGED <<schemaOk, remoteAware, aggVars, txVars, online, clock, nextRec, nextQ, local, remote, queue, audit, work>>

\* finally: self.is_syncing = False, on the normal path, the early return of an
\* empty queue and the outer except
SyncAllFinally(c) ==
    /\ \/ pc[c] = "run" /\ work[c] = << >>
       \/ pc[c] = "failed"
    /\ is_syncing' = FALSE
    /\ pc' = [pc EXCEPT ![c] = "idle"]
    /\ log' = [log EXCEPT ![c] = << >>]
    /\ ret' = [op |-> "sync_all", status |-> IF pc[c] = "failed" THEN "error" ELSE "completed"]
    /\ UNCHANGED <<schemaOk, remoteAware, aggVars, txVars, online, clock, nextRec, nextQ, local, remote, queue, audit, work>>


\* ---- LocalCache.transaction() on the shared connection, statement by statement ----
\* sqlite3.connect(..., check_same_thread=False) with the default isolation level:
\* every thread uses the same connection object, so there is one transaction state.
\* conn.saved is the content of the tables when the open transaction began,
\* conn.dirty the threads with uncommitted statements in it.
Snapshot == <<local, queue>>

\* conn.execute("BEGIN") when no transaction is open
conn_begin == [in_transaction |-> TRUE, saved |-> Snapshot, dirty |-> {}]

\* conn.execute(INSERT / UPDATE / DELETE): the sqlite3 module opens a transaction
\* first when none is open, otherwise the statement joins the open one
conn_dml(th) ==
    IF conn.in_transaction
    THEN [conn EXCEPT !.dirty = @ \cup {th}]
    ELSE [in_transaction |-> TRUE, saved |-> Snapshot, dirty |-> {th}]

\* conn.rollback(): the tables as they were when the open transaction began
rolled_back ==
    IF conn.in_transaction THEN conn.saved ELSE Snapshot

\* conn.execute("BEGIN"): raises 'cannot start a transaction within a transaction'
\* when one is open; the except branch of transaction() comes next
TxBegin(th, at, next, failed) ==
    /\ tpc[th] = at
    /\ IF conn.in_transaction
       THEN /\ tpc' = [tpc EXCEPT ![th] = failed]
            /\ UNCHANGED conn
       ELSE /\ tpc' = [tpc EXCEPT ![th] = next]
            /\ conn' = conn_begin
    /\ ret' = NoRet
    /\ UNCHANGED <<schemaOk, remoteAware, aggVars, online, clock, nextRec, nextQ, local, remote,
                   queue, audit, syncVars, tloc>>

\* conn.commit() at the end of the with block
TxCommit(th, at, next) ==
    /\ tpc[th] = at
    /\ tpc' = [tpc EXCEPT ![th] = next]
    /\ conn' = ConnIdle
    /\ ret' = NoRet
    /\ UNCHANGED <<schemaOk, remoteAware, aggVars, online, clock, nextRec, nextQ, local, remote,
                   queue, audit, syncVars, tloc>>

\* except: conn.rollback(); raise.  The exception leaves the method and reaches the
\* except branch of the caller (ClientManager returns failure, the batch loop counts
\* a failure and goes on)
TxRollback(th, at) ==
    /\ tpc[th] = at
    /\ local' = rolled_back[1]
    /\ queue' = rolled_back[2]
    /\ conn' = ConnIdle
    /\ tpc' = [tpc EXCEPT ![th] = "idle"]
    /\ tloc' = [tloc EXCEPT ![th] = << >>]
    /\ ret' = [op |-> "transaction", thread |-> th, ok |-> FALSE]
    /\ UNCHANGED <<schemaOk, remoteAware, aggVars, online, clock, nextRec, nextQ, remote, audit,
                   syncVars>>

\* ClientManager.create / update while offline, entered by the writer thread
WriterStart(v) ==
    /\ tpc["writer"] = "idle"
    /\ ~online
    /\ clock < MaxClock
    /\ nextQ <= MaxQueue
    /\ IF nextRec <= MaxRec
       THEN /\ tloc' = [tloc EXCEPT !["writer"] =
                    <<[operation |-> "create", id |-> nextRec,
                       data |-> [id |-> nextRec, val |-> v, updated_at |-> utcnow_isoformat],
                       queued |-> insert_data([id |-> nextRec, val |-> v,
                                               updated_at |-> utcnow_isoformat], TRUE)]>>]
            /\ nextRec' = nextRec + 1
       ELSE /\ \E id \in Ids :
                 /\ local[id] # None
                 /\ tloc' = [tloc EXCEPT !["writer"] =
                        <<[operation |-> "update", id |-> id,
                           data |-> [updated_at |-> utcnow_isoformat, val |-> v],
                           queued |-> Merge(local[id][1],
                                            [updated_at |-> utcnow_isoformat, val |-> v])]>>]
            /\ UNCHANGED nextRec
    /\ clock' = clock + 1
    /\ tpc' = [tpc EXCEPT !["writer"] = "w_begin1"]
    /\ ret' = NoRet
    /\ UNCHANGED <<schemaOk, remoteAware, aggVars, online, nextQ, local, remote, queue, audit,
                   syncVars, conn>>

\* LocalCache.insert / update(mark_pending=True): the statement inside the with block
WriterRow ==
    /\ tpc["writer"] = "w_dml1"
    /\ LET w == tloc["writer"][1]
       IN local' = IF w.operation = "create"
                   THEN lc_insert(local, w.data, TRUE)
                   ELSE lc_update(local, w.id, w.data, TRUE)
    /\ conn' = conn_dml("writer")
    /\ tpc' = [tpc EXCEPT !["writer"] = "w_commit1"]
    /\ ret' = NoRet
    /\ UNCHANGED <<schemaOk, remoteAware, aggVars, online, clock, nextRec, nextQ, remote, queue,
                   audit, syncVars, tloc>>

\* SyncQueue.add_operation -> LocalCache.insert('sync_queue', ...): the INSERT names
\* the updated_at column and raises when the table has none
WriterEntry ==
    /\ tpc["writer"] = "w_dml2"
    /\ IF schemaOk
       THEN LET w == tloc["writer"][1]
            IN /\ queue' = Append(queue, queue_item(nextQ, "clients", w.id, w.operation,
                                                   Some(w.queued)))
               /\ nextQ' = nextQ + 1
               /\ conn' = conn_dml("writer")
               /\ tpc' = [tpc EXCEPT !["writer"] = "w_commit2"]
       ELSE /\ tpc' = [tpc EXCEPT !["writer"] = "w_rollback"]
            /\ UNCHANGED <<queue, nextQ, conn>>
    /\ ret' = NoRet
    /\ UNCHANGED <<schemaOk, remoteAware, aggVars, online, clock, nextRec, local, remote, audit,
                   syncVars, tloc>>

\* the second transaction has committed: ClientManager returns success
WriterReturn ==
    /\ tpc["writer"] = "w_done"
    /\ tpc' = [tpc EXCEPT !["writer"] = "idle"]
    /\ tloc' = [tloc EXCEPT !["writer"] = << >>]
    /\ ret' = [op |-> tloc["writer"][1].operation, id |-> tloc["writer"][1].id,
               val |-> tloc["writer"][1].data.val, thread |-> "writer",
               offline |-> TRUE, ok |-> TRUE]
    /\ UNCHANGED <<schemaOk, remoteAware, aggVars, online, clock, nextRec, nextQ, local, remote,
                   queue, audit, syncVars, conn>>

\* one iteration of _batch_create / _batch_update whose remote call succeeds, entered
\* by the syncer thread for a pending entry
SyncerStart(queue_id) ==
    /\ tpc["syncer"] = "idle"
    /\ online
    /\ queue_id \in QIds(queue)
    /\ LET op == QEntry(queue, queue_id)
       IN /\ op.status = "pending"
          /\ op.local_data # None
          /\ \/ /\ op.operation = "create"
                /\ remote[op.record_id] = None
                /\ remote' = remote_insert(remote, clean_data(op.local_data[1]))
             \/ /\ op.operation = "update"
                /\ remote[op.record_id] # None
                /\ check_conflict(op.record_id, op.local_data[1]) = None
                /\ remote' = remote_update(remote, op.record_id, clean_data(op.local_data[1]))
          /\ tloc' = [tloc EXCEPT !["syncer"] = <<Fetched(<<op>>)[1]>>]
    /\ tpc' = [tpc EXCEPT !["syncer"] = "s_begin1"]
    /\ ret' = NoRet
    /\ UNCHANGED <<schemaOk, remoteAware, aggVars, online, clock, nextRec, nextQ, local, queue,
                   audit, syncVars, conn>>

\* LocalCache.mark_synced: self.update(table, record_id, ...), the statement
SyncerRow ==
    /\ tpc["syncer"] = "s_dml1"
    /\ local' = lc_mark_synced_row(local, tloc["syncer"][1].record_id)
    /\ conn' = conn_dml("syncer")
    /\ tpc' = [tpc EXCEPT !["syncer"] = "s_commit1"]
    /\ ret' = NoRet
    /\ UNCHANGED <<schemaOk, remoteAware, aggVars, online, clock, nextRec, nextQ, remote, queue,
                   audit, syncVars, tloc>>

\* LocalCache.mark_synced: conn.execute(UPDATE sync_queue ...) outside any with block
SyncerQueueRows ==
    /\ tpc["syncer"] = "s_dml2"
    /\ queue' = lc_mark_synced_queue(queue, "clients", tloc["syncer"][1].record_id)
    /\ conn' = conn_dml("syncer")
    /\ tpc' = [tpc EXCEPT !["syncer"] = "s_commit2"]
    /\ ret' = NoRet
    /\ UNCHANGED <<schemaOk, remoteAware, aggVars, online, clock, nextRec, nextQ, local, remote,
                   audit, syncVars, tloc>>

\* SyncQueue.mark_synced -> LocalCache.update('sync_queue', ...): the UPDATE names the
\* updated_at column and raises when the table has none
SyncerEntry ==
    /\ tpc["syncer"] = "s_dml3"
    /\ IF schemaOk
       THEN /\ queue' = sq_mark_synced(queue, tloc["syncer"][1].id)
            /\ conn' = conn_dml("syncer")
            /\ tpc' = [tpc EXCEPT !["syncer"] = "s_commit3"]
       ELSE /\ tpc' = [tpc EXCEPT !["syncer"] = "s_rollback"]
            /\ UNCHANGED <<queue, conn>>
    /\ ret' = NoRet
    /\ UNCHANGED <<schemaOk, remoteAware, aggVars, online, clock, nextRec, nextQ, local, remote,
                   audit, syncVars, tloc>>

\* results['synced'] += 1
SyncerReturn ==
    /\ tpc["syncer"] = "s_done"
    /\ tpc' = [tpc EXCEPT !["syncer"] = "idle"]
    /\ tloc' = [tloc EXCEPT !["syncer"] = << >>]
    /\ ret' = [op |-> "sync_step", thread |-> "syncer", id |-> tloc["syncer"][1].id,
               record_id |-> tloc["syncer"][1].record_id,
               operation |-> tloc["syncer"][1].operation, outcome |-> "ok"]
    /\ UNCHANGED <<schemaOk, remoteAware, aggVars, online, clock, nextRec, nextQ, local, remote,
                   queue, audit, syncVars, conn>>

\* ---- SyncManager.sync_all: the loop over the tables and its totals ----
\* Here a whole sync_table call is one step: it returns its results dictionary or raises.
Tables == {"clients", "doctors"}

\* the dictionaries sync_table can return for a batch of n operations: every operation
\* is counted once (step_results) or skipped, every failure adds one error string
BatchResults(n) ==
    {[raised |-> FALSE, synced |-> s, failed |-> f, conflicts |-> c, errors |-> f] :
        s \in 0..n, f \in 0..n, c \in 0..n} \cap
    {r \in [raised : {FALSE}, synced : 0..n, failed : 0..n, conflicts : 0..n, errors : 0..n] :
        r.synced + r.failed + r.conflicts <= n}

\* sync_table raised: there is no dictionary
BatchRaised == [raised |-> TRUE, synced |-> 0, failed |-> 0, conflicts |-> 0, errors |-> 0]

\* the loop body with an except branch that counts one failure for the table
add_batch_m(res, n, outcome) ==
    IF outcome.raised
    THEN [res EXCEPT !.failed = @ + 1, !.errors = @ + 1]
    ELSE [synced |-> res.synced + outcome.synced,
          failed |-> res.failed + outcome.failed,
          conflicts |-> res.conflicts + outcome.conflicts,
          errors |-> res.errors + outcome.errors]

\* the body of 'for table, operations in by_table.items()': try / except
add_batch(res, n, outcome) ==
    IF outcome.raised
    THEN [res EXCEPT !.failed = @ + n, !.errors = @ + 1]
    ELSE [synced |-> res.synced + outcome.synced,
          failed |-> res.failed + outcome.failed,
          conflicts |-> res.conflicts + outcome.conflicts,
          errors |-> res.errors + outcome.errors]

\* the groups a fetch can produce: distinct tables, each with at least one operation
Groupings ==
    {<<[table |-> t, n |-> n]>> : t \in Tables, n \in 1..MaxOps} \cup
    {bt \in {<<[table |-> ta, n |-> na], [table |-> tb, n |-> nb]>> :
                ta \in Tables, tb \in Tables, na \in 1..MaxOps, nb \in 1..MaxOps} :
        bt[1].table # bt[2].table}

\* pending_ops fetched and grouped
SyncAllGrouped(bt) ==
    /\ by_table = << >>
    /\ by_table' = bt
    /\ outcomes' = << >>
    /\ results' = NoResults
    /\ ret' = [op |-> "sync_all", status |-> "grouped"]
    /\ UNCHANGED <<schemaOk, remoteAware, txVars, online, clock, nextRec, nextQ, local, remote,
                   queue, audit, syncVars>>

\* one iteration of the loop over the tables
SyncAllTable(outcome) ==
    /\ Len(outcomes) < Len(by_table)
    /\ LET n == by_table[Len(outcomes) + 1].n
       IN /\ outcome \in BatchResults(n) \cup {BatchRaised}
          /\ results' = add_batch(results, n, outcome)
    /\ outcomes' = Append(outcomes, outcome)
    /\ ret' = [op |-> "sync_all", status |-> "table_done"]
    /\ UNCHANGED <<schemaOk, remoteAware, txVars, online, clock, nextRec, nextQ, local, remote,
                   queue, audit, syncVars, by_table>>

\* results['status'] = 'completed'; return results
SyncAllTotals ==
    /\ by_table # << >>
    /\ Len(outcomes) = Len(by_table)
    /\ ret' = [op |-> "sync_all", status |-> "totals", results |-> results,
               by_table |-> by_table, outcomes |-> outcomes]
    /\ by_table' = << >>
    /\ outcomes' = << >>
    /\ results' = NoResults
    /\ UNCHANGED <<schemaOk, remoteAware, txVars, online, clock, nextRec, nextQ, local, remote,
                   queue, audit, syncVars>>

\* ---- SyncManager.sync_table(table), called by a thread of its own ----
\* pending_ops = get_pending_operations(table=table); no test and no write of is_syncing
SyncTableStart(c) ==
    /\ pc[c] = "idle"
    /\ LET pending_ops == get_pending_operations(queue, "clients", 0)
       IN IF pending_ops = << >>
          THEN /\ ret' = [op |-> "sync_table", caller |-> c, status |-> "no_pending"]
               /\ UNCHANGED <<pc, work, log>>
          ELSE /\ work' = [work EXCEPT ![c] = Fetched(sync_table_order(pending_ops))]
               /\ log' = [log EXCEPT ![c] = << >>]
               /\ pc' = [pc EXCEPT ![c] = "table"]
               /\ ret' = [op |-> "sync_table", caller |-> c, status |-> "started"]
    /\ UNCHANGED <<schemaOk, remoteAware, aggVars, txVars, online, clock, nextRec, nextQ, local, remote, queue, audit,
                   is_syncing>>

\* the batch loops of the sync_table call: its next operation
SyncTableStep(c) ==
    /\ pc[c] = "table"
    /\ work[c] # << >>
    /\ LET op == Head(work[c])
           eff == SyncEffect(op)
       IN /\ remote' = eff.remote
          /\ local' = eff.local
          /\ queue' = eff.queue
          /\ log' = [log EXCEPT ![c] = IF eff.outcome \in Sends
                                         THEN Append(@, [id |-> op.id, record_id |-> op.record_id,
                                                         operation |-> op.operation])
                                         ELSE @]
          /\ ret' = [op |-> "sync_step", caller |-> c, id |-> op.id,
                     record_id |-> op.record_id, operation |-> op.operation,
                     outcome |-> eff.outcome]
    /\ work' = [work EXCEPT ![c] = Tail(@)]
    /\ UNCHANGED <<schemaOk, remoteAware, aggVars, txVars, online, clock, nextRec, nextQ, audit, is_syncing, pc>>

\* return self.batch_sync.sync_table(table, pending_ops)
SyncTableReturn(c) ==
    /\ pc[c] = "table"
    /\ work[c] = << >>
    /\ pc' = [pc EXCEPT ![c] = "idle"]
    /\ log' = [log EXCEPT ![c] = << >>]
    /\ ret' = [op |-> "sync_table", caller |-> c, status |-> "returned"]
    /\ UNCHANGED <<schemaOk, remoteAware, aggVars, txVars, online, clock, nextRec, nextQ, local, remote, queue, audit,
                   is_syncing, work>>

\* ---- BatchSync.sync_table(table, operations) with the dictionary it returns ----
\* results[...] += ..._results[...]: the counts of one more loop iteration
add_step(res, outcome) ==
    [synced |-> res.synced + step_results(outcome).synced,
     failed |-> res.failed + step_results(outcome).failed,
     conflicts |-> res.conflicts + step_results(outcome).conflicts,
     errors |-> res.errors + step_results(outcome).errors]

\* sync_table is handed the pending operations of the table; results starts at zero
BatchTableStart(c) ==
    /\ pc[c] = "idle"
    /\ LET operations == get_pending_operations(queue, "clients", 0)
       IN /\ operations # << >>
          /\ work' = [work EXCEPT ![c] = Fetched(sync_table_order(operations))]
          /\ by_table' = <<[table |-> "clients", n |-> Len(operations)]>>
    /\ results' = NoResults
    /\ log' = [log EXCEPT ![c] = << >>]
    /\ pc' = [pc EXCEPT ![c] = "table"]
    /\ ret' = [op |-> "batch_sync_table", status |-> "started"]
    /\ UNCHANGED <<schemaOk, remoteAware, outcomes, txVars, online, clock, nextRec, nextQ, local,
                   remote, queue, audit, is_syncing>>

\* one iteration of a batch loop and what it adds to the results
BatchTableStep(c) ==
    /\ pc[c] = "table"
    /\ work[c] # << >>
    /\ LET op == Head(work[c])
           eff == SyncEffect(op)
       IN /\ remote' = eff.remote
          /\ local' = eff.local
          /\ queue' = eff.queue
          /\ results' = add_step(results, eff.outcome)
          /\ log' = [log EXCEPT ![c] = IF eff.outcome \in Sends
                                         THEN Append(@, [id |-> op.id, record_id |-> op.record_id,
                                                         operation |-> op.operation])
                                         ELSE @]
          /\ ret' = [op |-> "sync_step", caller |-> c, id |-> op.id,
                     record_id |-> op.record_id, operation |-> op.operation,
                     outcome |-> eff.outcome]
    /\ work' = [work EXCEPT ![c] = Tail(@)]
    /\ UNCHANGED <<schemaOk, remoteAware, by_table, outcomes, txVars, online, clock, nextRec,
                   nextQ, audit, is_syncing, pc>>

\* return results
BatchTableReturn(c) ==
    /\ pc[c] = "table"
    /\ work[c] = << >>
    /\ pc' = [pc EXCEPT ![c] = "idle"]
    /\ log' = [log EXCEPT ![c] = << >>]
    /\ ret' = [op |-> "batch_sync_table", status |-> "returned",
               operations |-> by_table[1].n, results |-> results]
    /\ UNCHANGED <<schemaOk, remoteAware, aggVars, txVars, online, clock, nextRec, nextQ, local,
                   remote, queue, audit, is_syncing, work>>

\* ---- ConflictAudit.log_conflict (no caller in the repository) ----
log_conflict(aud, table_name, record_id, conflict_type, local_data, remote_data, resolution) ==
    Append(aud, [table_name |-> table_name, record_id |-> record_id,
                 conflict_type |-> conflict_type, local_data |-> local_data,
                 remote_data |-> remote_data, resolution |-> resolution])

\* the tables LocalCache._initialize_database creates
local_tables == {"clients", "doctors", "staff", "rooms", "equipment", "reservations",
                 "payments", "sync_queue", "users", "user_roles"}

\* the except branch of log_conflict: local_cache.insert('conflict_audit', audit_entry,
\* mark_pending=True); None when the INSERT raises (no such table) and the
\* transaction context manager re-raises
log_conflict_fallback(aud, audit_entry) ==
    IF "conflict_audit" \in local_tables
    THEN Some(Append(aud, insert_data(audit_entry, TRUE)))
    ELSE None

\* a call of ConflictAudit.log_conflict for a record; the remote sink raises when
\* the remote store cannot be reached
LogConflict(record_id, resolution) ==
    /\ Len(audit) < MaxAudit
    /\ LET audit_entry == [table_name |-> "clients", record_id |-> record_id,
                           conflict_type |-> "timestamp_conflict",
                           local_data |-> local[record_id],
                           remote_data |-> remote[record_id],
                           resolution |-> resolution]
           fallback == log_conflict_fallback(audit, audit_entry)
       IN IF online
          THEN /\ audit' = log_conflict(audit, "clients", record_id, "timestamp_conflict",
                                        local[record_id], remote[record_id], resolution)
               /\ ret' = [op |-> "log_conflict", sink_raised |-> FALSE, returned |-> TRUE]
          ELSE IF fallback # None
          THEN /\ audit' = fallback[1]
               /\ ret' = [op |-> "log_conflict", sink_raised |-> TRUE, returned |-> TRUE]
          ELSE /\ audit' = audit
               /\ ret' = [op |-> "log_conflict", sink_raised |-> TRUE, returned |-> FALSE]
    /\ UNCHANGED <<schemaOk, remoteAware, aggVars, txVars, online, clock, nextRec, nextQ, local, remote, queue,
                   syncVars>>

\* ---- ConflictHandler.resolve_conflict ----
Unresolved == [remote |-> remote, local |-> local, queue |-> queue, ok |-> FALSE]

\* sync_queue.mark_synced(queue_id) as the last statement of a branch
resolved_with(rem, loc, q, queue_id) ==
    [remote |-> rem, local |-> loc,
     queue |-> IF schemaOk THEN sq_mark_synced(q, queue_id) ELSE q,
     ok |-> schemaOk]

resolve_local(item) ==
    IF item.local_data = None \/ ~online THEN Unresolved
    ELSE resolved_with(remote_update(remote, item.record_id, clean_data(item.local_data[1])),
                       lc_mark_synced_row(local, item.record_id),
                       lc_mark_synced_queue(queue, item.table_name, item.record_id),
                       item.id)

resolve_remote(item) ==
    IF ~online THEN Unresolved
    ELSE IF remote[item.record_id] = None
    THEN [remote |-> remote, local |-> local, queue |-> queue, ok |-> TRUE]
    ELSE resolved_with(remote, lc_insert(local, remote[item.record_id][1], FALSE), queue, item.id)

resolve_merge(item, data) ==
    IF ~online THEN Unresolved
    ELSE LET cd == clean_data(data)
         IN resolved_with(remote_update(remote, item.record_id, cd),
                          lc_insert(local, cd, FALSE), queue, item.id)

\* resolve_conflict without the final else: an unknown resolution falls through to return True
resolve_conflict_m(queue_id, resolution, data) ==
    IF queue_id \notin QIds(queue) THEN Unresolved
    ELSE LET item == QEntry(queue, queue_id)
         IN IF resolution = "local" THEN resolve_local(item)
            ELSE IF resolution = "remote" THEN resolve_remote(item)
            ELSE IF resolution = "merge" /\ data # None THEN resolve_merge(item, data[1])
            ELSE [remote |-> remote, local |-> local, queue |-> queue, ok |-> TRUE]

resolve_conflict(queue_id, resolution, data) ==
    IF queue_id \notin QIds(queue) THEN Unresolved
    ELSE LET item == QEntry(queue, queue_id)
         IN IF resolution = "local" THEN resolve_local(item)
            ELSE IF resolution = "remote" THEN resolve_remote(item)
            ELSE IF resolution = "merge" /\ data # None THEN resolve_merge(item, data[1])
            ELSE Unresolved

Resolutions == {"local", "remote", "merge", "other"}

\* the merged record a caller can supply for the entry
MergeData(queue_id, v) ==
    IF queue_id \in QIds(queue)
    THEN Some([id |-> QEntry(queue, queue_id).record_id, val |-> v,
               updated_at |-> utcnow_isoformat])
    ELSE None

ApplyResolve(queue_id, resolution, data, auto) ==
    LET eff == resolve_conflict(queue_id, resolution, data)
    IN /\ remote' = eff.remote
       /\ local' = eff.local
       /\ queue' = eff.queue
       /\ ret' = [op |-> "resolve_conflict", queue_id |-> queue_id,
                  resolution |-> resolution, ok |-> eff.ok, auto |-> auto,
                  with_data |-> data # None, data |-> data,
                  audit_before |-> Len(audit)]
       /\ UNCHANGED <<schemaOk, remoteAware, aggVars, txVars, online, clock, nextRec, nextQ, audit, syncVars>>

\* SyncManager.resolve_conflict: manual resolution of an entry that get_conflicts()
\* lists; a call that returns False without having written anything leaves every
\* store as it was
ResolveConflict(queue_id, resolution, v) ==
    /\ queue_id \in QIds(queue)
    /\ QEntry(queue, queue_id).status = "conflict"
    /\ resolution = "merge" \/ v = 0
    /\ resolve_conflict(queue_id, resolution,
                        IF resolution = "merge" /\ v # 0 THEN MergeData(queue_id, v) ELSE None)
           # Unresolved
    /\ ApplyResolve(queue_id, resolution,
                    IF resolution = "merge" /\ v # 0 THEN MergeData(queue_id, v) ELSE None,
                    FALSE)

\* SyncManager.resolve_conflict on a conflict entry with a resolution that is not
\* one of the three strategies, or with 'merge' and no merged record
ResolveConflictInvalid(queue_id, resolution) ==
    /\ queue_id \in QIds(queue)
    /\ QEntry(queue, queue_id).status = "conflict"
    /\ resolution \in {"merge", "other"}
    /\ ApplyResolve(queue_id, resolution, None, FALSE)

\* SyncManager.resolve_conflict with the id of any queue entry: the handler reads the
\* entry and never looks at its status
ResolveConflictAny(queue_id, resolution) ==
    /\ queue_id \in QIds(queue)
    /\ resolution \in {"local", "remote"}
    /\ ApplyResolve(queue_id, resolution, None, FALSE)

\* ---- ConflictHandler.auto_resolve_conflict ----
\* the descriptor a caller hands over for a queue entry: the entry's local snapshot
\* against the remote snapshot stored with a 'conflict' entry, or against the remote
\* row as fetched now for an entry that is checked without waiting for a pass
descriptor(queue_id) ==
    LET item == QEntry(queue, queue_id)
        remote_data == IF item.remote_data # None THEN item.remote_data
                       ELSE remote[item.record_id]
    IN [queue_id |-> queue_id,
        local_data |-> item.local_data,
        remote_data |-> remote_data,
        local_updated |-> item.local_data[1].updated_at,
        remote_updated |-> remote_data[1].updated_at]

\* the body of the try block up to the call of resolve_conflict
auto_resolution(local_updated, remote_updated) ==
    IF CompareRaises(local_updated, remote_updated) THEN "raised"
    ELSE IF remote_updated.t > local_updated.t THEN "remote"
    ELSE "local"

AutoResolveConflict(queue_id) ==
    /\ queue_id \in QIds(queue)
    /\ LET item == QEntry(queue, queue_id)
       IN /\ item.status \in {"pending", "conflict"}
          /\ item.local_data # None
          /\ item.remote_data # None \/ (online /\ remote[item.record_id] # None)
          /\ LET conflict == descriptor(queue_id)
                 resolution == auto_resolution(conflict.local_updated, conflict.remote_updated)
             IN IF resolution = "raised"
                THEN /\ ret' = [op |-> "auto_resolve_conflict", queue_id |-> queue_id,
                                resolution |-> "none", ok |-> FALSE, auto |-> TRUE,
                                local_updated |-> conflict.local_updated,
                                remote_updated |-> conflict.remote_updated]
                     /\ UNCHANGED <<schemaOk, remoteAware, aggVars, txVars, online, clock, nextRec, nextQ,
                                    local, remote, queue, audit, syncVars>>
                ELSE LET eff == resolve_conflict(queue_id, resolution, None)
                     IN /\ eff # Unresolved
                        /\ remote' = eff.remote
                        /\ local' = eff.local
                        /\ queue' = eff.queue
                        /\ ret' = [op |-> "resolve_conflict", queue_id |-> queue_id,
                                   resolution |-> resolution, ok |-> eff.ok, auto |-> TRUE,
                                   with_data |-> FALSE, audit_before |-> Len(audit),
                                   local_updated |-> conflict.local_updated,
                                   remote_updated |-> conflict.remote_updated]
                        /\ UNCHANGED <<schemaOk, remoteAware, aggVars, txVars, online, clock, nextRec, nextQ,
                                       audit, syncVars>>

\* conflict.get('queue_id', ''): 0 stands for the empty string, the id of no entry
conflict_queue_id(conflict) ==
    IF "queue_id" \in DOMAIN conflict THEN conflict.queue_id ELSE 0

\* auto_resolve_conflict(check_conflict(table, record_id, local_data)) for the snapshot
\* of a queue entry, the remote record being later than the snapshot
AutoResolveChecked(queue_id) ==
    /\ queue_id \in QIds(queue)
    /\ LET item == QEntry(queue, queue_id)
       IN /\ item.status \in {"pending", "conflict"}
          /\ item.local_data # None
          /\ check_conflict(item.record_id, item.local_data[1]) # None
          /\ LET conflict == check_conflict(item.record_id, item.local_data[1])[1]
                 resolution == auto_resolution(conflict.local_updated, conflict.remote_updated)
                 eff == IF resolution = "raised" THEN Unresolved
                        ELSE resolve_conflict(conflict_queue_id(conflict), resolution, None)
             IN /\ remote' = eff.remote
                /\ local' = eff.local
                /\ queue' = eff.queue
                /\ ret' = [op |-> "auto_resolve_checked", queue_id |-> queue_id,
                           resolution |-> resolution, ok |-> eff.ok]
    /\ UNCHANGED <<schemaOk, remoteAware, aggVars, txVars, online, clock, nextRec, nextQ, audit,
                   syncVars>>

\* ---- the system ----
Next ==
    \/ \E v \in Vals : ClientCreate(v)
    \/ \E id \in Ids : ClientGet(id)
    \/ \E id \in Ids, v \in Vals : ClientUpdate(id, v)
    \/ \E id \in Ids : ClientDelete(id)
    \/ \E v \in Vals : ClientCreateLocalFails(v)
    \/ \E id \in Ids, v \in Vals : ClientUpdateLocalFails(id, v)
    \/ \E id \in Ids : ClientDeleteLocalFails(id)
    \/ NetworkChange
    \/ \E id \in Ids, v \in Vals : RemoteEdit(id, v)
    \/ \E force \in BOOLEAN : SyncAllGuard("t1", force)
    \/ SyncAllStart("t1")
    \/ SyncAllStartRaises("t1")
    \/ SyncStep("t1")
    \/ SyncStepLost("t1")
    \/ SyncTableRaises("t1")
    \/ SyncAllFinally("t1")
    \/ is_syncing /\ SyncAllGuard("t2", FALSE)
    \/ \E q \in 1..MaxQueue, r \in Resolutions, v \in 0..MaxVal : ResolveConflict(q, r, v)
    \/ \E q \in 1..MaxQueue : AutoResolveConflict(q)
    \/ \E q \in 1..MaxQueue, r \in Resolutions : ResolveConflictInvalid(q, r)

Spec == Init /\ [][Next]_vars

\* two threads call sync_all(force=False) concurrently
NextConc ==
    \/ \E v \in Vals : ClientCreate(v)
    \/ \E id \in Ids : ClientGet(id)
    \/ \E id \in Ids, v \in Vals : ClientUpdate(id, v)
    \/ \E id \in Ids : ClientDelete(id)
    \/ NetworkChange
    \/ \E id \in Ids, v \in Vals : RemoteEdit(id, v)
    \/ \E c \in Callers : SyncAllGuard(c, FALSE)
    \/ \E c \in Callers : SyncAllStart(c)
    \/ \E c \in Callers : SyncStep(c)
    \/ \E c \in Callers : SyncAllFinally(c)
    \/ \E q \in 1..MaxQueue, r \in Resolutions, v \in 0..MaxVal : ResolveConflict(q, r, v)
    \/ \E q \in 1..MaxQueue : AutoResolveConflict(q)

SpecConc == Init /\ [][NextConc]_vars

\* the remote store answers every request it receives and sync_all keeps being
\* invoked: every step of a pass that can be taken is taken
NextLive ==
    \/ \E v \in Vals : ClientCreate(v)
    \/ \E id \in Ids : ClientGet(id)
    \/ \E id \in Ids, v \in Vals : ClientUpdate(id, v)
    \/ \E id \in Ids : ClientDelete(id)
    \/ NetworkChange
    \/ \E id \in Ids, v \in Vals : RemoteEdit(id, v)
    \/ SyncAllGuard("t1", FALSE)
    \/ SyncAllStart("t1")
    \/ SyncStep("t1")
    \/ SyncAllFinally("t1")

SpecLive ==
    /\ Init
    /\ [][NextLive]_vars
    /\ WF_vars(SyncAllGuard("t1", FALSE))
    /\ WF_vars(SyncAllStart("t1"))
    /\ WF_vars(SyncStep("t1"))
    /\ WF_vars(SyncAllFinally("t1"))

\* ConflictAudit.log_conflict called by a client of the sync core while records are
\* written and the network comes and goes
NextAudit ==
    \/ \E v \in Vals : ClientCreate(v)
    \/ \E id \in Ids, v \in Vals : ClientUpdate(id, v)
    \/ NetworkChange
    \/ \E id \in Ids, r \in {"local", "remote"} : LogConflict(id, r)

SpecAudit == Init /\ [][NextAudit]_vars

\* thread t1 calls sync_all(force=False) while thread t2 calls sync_table('clients')
NextTable ==
    \/ \E v \in Vals : ClientCreate(v)
    \/ \E id \in Ids, v \in Vals : ClientUpdate(id, v)
    \/ \E id \in Ids : ClientDelete(id)
    \/ NetworkChange
    \/ SyncAllGuard("t1", FALSE)
    \/ SyncAllStart("t1")
    \/ SyncStep("t1")
    \/ SyncAllFinally("t1")
    \/ SyncTableStart("t2")
    \/ SyncTableStep("t2")
    \/ SyncTableReturn("t2")

SpecTable == Init /\ [][NextTable]_vars

\* sync_all over the batches of several tables, any of which may raise
NextTotals ==
    \/ \E bt \in Groupings : SyncAllGrouped(bt)
    \/ \E o \in BatchResults(MaxOps) \cup {BatchRaised} : SyncAllTable(o)
    \/ SyncAllTotals

SpecTotals == Init /\ [][NextTotals]_vars

\* a domain write and a sync pass run in two threads on the shared connection
NextTx ==
    \/ NetworkChange
    \/ \E v \in Vals : WriterStart(v)
    \/ TxBegin("writer", "w_begin1", "w_dml1", "w_rollback")
    \/ WriterRow
    \/ TxCommit("writer", "w_commit1", "w_begin2")
    \/ TxBegin("writer", "w_begin2", "w_dml2", "w_rollback")
    \/ WriterEntry
    \/ TxCommit("writer", "w_commit2", "w_done")
    \/ TxRollback("writer", "w_rollback")
    \/ WriterReturn
    \/ \E q \in 1..MaxQueue : SyncerStart(q)
    \/ TxBegin("syncer", "s_begin1", "s_dml1", "s_rollback")
    \/ SyncerRow
    \/ TxCommit("syncer", "s_commit1", "s_dml2")
    \/ SyncerQueueRows
    \/ TxCommit("syncer", "s_commit2", "s_begin3")
    \/ TxBegin("syncer", "s_begin3", "s_dml3", "s_rollback")
    \/ SyncerEntry
    \/ TxCommit("syncer", "s_commit3", "s_done")
    \/ TxRollback("syncer", "s_rollback")
    \/ SyncerReturn

SpecTx == Init /\ [][NextTx]_vars

\* resolve_conflict and auto_resolve_conflict called for any entry the queue holds,
\* between passes
NextResolve ==
    \/ \E v \in Vals : ClientCreate(v)
    \/ \E id \in Ids, v \in Vals : ClientUpdate(id, v)
    \/ NetworkChange
    \/ \E id \in Ids, v \in Vals : RemoteEdit(id, v)
    \/ SyncAllGuard("t1", FALSE)
    \/ SyncAllStart("t1")
    \/ SyncStep("t1")
    \/ SyncAllFinally("t1")
    \/ \E q \in 1..MaxQueue, r \in {"local", "remote"} : ResolveConflictAny(q, r)
    \/ \E q \in 1..MaxQueue : AutoResolveChecked(q)

SpecResolve == Init /\ [][NextResolve]_vars

\* sync passes over update entries whose snapshot, or whose remote record, has no usable
\* updated_at
NextStamp ==
    \/ \E v \in Vals : ClientCreate(v)
    \/ \E id \in Ids, v \in Vals : ClientUpdate(id, v)
    \/ NetworkChange
    \/ \E id \in Ids : \E d \in Snapshots(id) : AddOperation("update", id, d)
    \/ \E id \in Ids, missing \in BOOLEAN : RemoteStamp(id, missing)
    \/ SyncAllGuard("t1", FALSE)
    \/ SyncAllStart("t1")
    \/ SyncStep("t1")
    \/ SyncAllFinally("t1")

SpecStamp == Init /\ [][NextStamp]_vars

\* sync_table calls over queues that hold operations of every type, with and without
\* a snapshot
NextCount ==
    \/ \E v \in Vals : ClientCreate(v)
    \/ \E id \in Ids, v \in Vals : ClientUpdate(id, v)
    \/ \E id \in Ids : ClientDelete(id)
    \/ NetworkChange
    \/ \E o \in {"create", "update"}, id \in Ids : \E d \in Snapshots(id) : AddOperation(o, id, d)
    \/ BatchTableStart("t1")
    \/ BatchTableStep("t1")
    \/ BatchTableReturn("t1")

SpecCount == Init /\ [][NextCount]_vars

\* thread t1 calls sync_all(), thread t2 calls sync_all(force=True) while a pass is running
NextForce ==
    \/ \E v \in Vals : ClientCreate(v)
    \/ \E id \in Ids, v \in Vals : ClientUpdate(id, v)
    \/ NetworkChange
    \/ SyncAllGuard("t1", FALSE)
    \/ is_syncing /\ SyncAllGuard("t2", TRUE)
    \/ \E c \in Callers : SyncAllStart(c)
    \/ \E c \in Callers : SyncStep(c)
    \/ \E c \in Callers : SyncAllFinally(c)

SpecForce == Init /\ [][NextForce]_vars

\* ======================= properties =======================

Inside(c) == pc[c] \in {"passed", "run", "failed"}

HasConflict(q, table, record_id) ==
    \E i \in 1..Len(q) : /\ q[i].status = "conflict"
                          /\ q[i].table_name = table
                          /\ q[i].record_id = record_id

PendingIds(q, table, limit) ==
    LET ops == get_pending_operations(q, table, limit)
    IN {ops[i].id : i \in 1..Len(ops)}

\* C1: after every resolve_conflict that returns True (manual or automatic) exactly
\* one new conflict-audit entry exists, with the table, record, chosen resolution
\* and both snapshots of the queue entry.
C1_AuditComplete ==
    (ret.op = "resolve_conflict" /\ ret.ok) =>
        /\ Len(audit) = ret.audit_before + 1
        /\ LET a == audit[Len(audit)]
               e == QEntry(queue, ret.queue_id)
           IN /\ a.table_name = e.table_name
              /\ a.record_id = e.record_id
              /\ a.resolution = ret.resolution
              /\ a.local_data = e.local_data
              /\ a.remote_data = e.remote_data

\* C2: a create or update entry whose remote call raised or was rejected during a
\* pass is still 'pending' afterwards and is returned by get_pending_operations.
C2_FailedStaysPending ==
    (ret.op = "sync_step" /\ ret.operation \in {"create", "update"}
        /\ ret.outcome \in {"raised", "rejected"}) =>
        /\ QStatus(queue, ret.id) = "pending"
        /\ ret.id \in PendingIds(queue, "", 0)

\* C3: with the remote store reachable, check_conflict reports a conflict for an
\* update's snapshot if and only if the remote record exists and its updated_at is
\* later than the snapshot's; the descriptor carries the remote record.
C3_ConflictIff ==
    [][\A c \in Callers :
        (ret'.op = "sync_step" /\ ret'.caller = c /\ ret'.operation = "update"
            /\ online /\ Head(work[c]).local_data # None) =>
            LET r == ret'.record_id
                T1 == Head(work[c]).local_data[1].updated_at.t
            IN /\ (ret'.outcome = "conflict")
                    <=> (remote[r] # None /\ remote[r][1].updated_at.t > T1)
               /\ (ret'.outcome = "conflict")
                    => QEntry(queue', ret'.id).remote_data = remote[r]]_vars

\* C4: at most one sync_all(force=False) caller is between the guard and its finally block.
C4_OneCallerInside == Cardinality({c \in Callers : Inside(c)}) <= 1

\* C5: a queue entry that is 'synced' never becomes 'pending' again, and no later
\* get_pending_operations call (any table filter, any limit) returns it.
C5_SyncedNeverPending ==
    [][\A id \in QIds(queue) :
        QStatus(queue, id) = "synced" =>
            /\ QStatus(queue', id) # "pending"
            /\ \A table \in {"", "clients"}, limit \in 0..MaxQueue :
                  id \notin PendingIds(queue', table, limit)]_vars

\* a pass has just fetched its operations while a synced entry sits in the queue
C5_Witness ==
    /\ ret = [op |-> "sync_all", status |-> "started"]
    /\ \E c \in Callers : pc[c] = "run" /\ work[c] # << >>
    /\ \E i \in 1..Len(queue) : queue[i].status = "synced"

\* every offline update of an existing record appends a pending 'update' entry with its snapshot
C6_Enqueued ==
    (ret.op = "update" /\ ret.offline) =>
        /\ Len(queue) >= 1
        /\ LET e == queue[Len(queue)]
           IN /\ e.operation = "update"
              /\ e.record_id = ret.id
              /\ e.status = "pending"
              /\ e.local_data # None

\* a pass sends the updates of a record in enqueue order; once the later one is
\* accepted the remote record equals its snapshot and the updates sent are 'synced'
C6_Applied ==
    [][\A c \in Callers :
        (ret'.op = "sync_step" /\ ret'.caller = c /\ ret'.operation = "update"
            /\ ret'.outcome = "ok") =>
            LET r == ret'.record_id
                B == Head(work[c])
                earlier == {i \in 1..Len(log[c]) : /\ log[c][i].record_id = r
                                                   /\ log[c][i].operation = "update"}
            IN /\ \A i \in earlier : log[c][i].id < B.id
               /\ remote'[r] = Some(Stored(clean_data(B.local_data[1])))
               /\ QStatus(queue', B.id) = "synced"
               /\ \A i \in earlier : QStatus(queue', log[c][i].id) = "synced"]_vars

\* C6: a record updated twice while offline has two pending 'update' entries in
\* that order; a sync pass against a reachable remote applies A then B, the remote
\* record ends equal to B's data and both entries end 'synced'.
C6_TwoOfflineUpdates ==
    [][/\ C6_Enqueued'
       /\ \A c \in Callers :
            (ret'.op = "sync_step" /\ ret'.caller = c /\ ret'.operation = "update"
                /\ ret'.outcome = "ok") =>
                LET r == ret'.record_id
                    B == Head(work[c])
                    earlier == {i \in 1..Len(log[c]) : /\ log[c][i].record_id = r
                                                       /\ log[c][i].operation = "update"}
                IN /\ \A i \in earlier : log[c][i].id < B.id
                   /\ remote'[r] = Some(Stored(clean_data(B.local_data[1])))
                   /\ QStatus(queue', B.id) = "synced"
                   /\ \A i \in earlier : QStatus(queue', log[c][i].id) = "synced"]_vars

\* C7: 'synced' is terminal: a 'synced' entry never changes status and is never removed.
C7_SyncedTerminal ==
    [][\A id \in QIds(queue) :
        QStatus(queue, id) = "synced" => QStatus(queue', id) = "synced"]_vars

\* C8: a 'conflict' entry keeps its status and its remote snapshot until a
\* resolve_conflict call for its own id returns True.
C8_ConflictStable ==
    [][\A id \in QIds(queue) :
        QStatus(queue, id) = "conflict" =>
            \/ /\ QStatus(queue', id) = "conflict"
               /\ QEntry(queue', id).remote_data = QEntry(queue, id).remote_data
            \/ /\ ret'.op = "resolve_conflict"
               /\ ret'.queue_id = id
               /\ ret'.ok]_vars

\* C9: while an entry of a (table, record) is 'conflict', no pass sends a create,
\* update or delete for that record to the remote store.
C9_NoSendWhileConflict ==
    [][(ret'.op = "sync_step" /\ ret'.outcome \in Sends) =>
        ~HasConflict(queue, "clients", ret'.record_id)]_vars

\* C10: a pass sends the entries of one (table, record) in the order they were enqueued.
C10_EnqueueOrder ==
    \A c \in Callers : \A i, j \in 1..Len(log[c]) :
        (i < j /\ log[c][i].record_id = log[c][j].record_id) => log[c][i].id < log[c][j].id

\* C15: a pass that reaches the pending 'create' entry of a record created offline
\* while the remote store accepts the insert and answers it leaves the entry 'synced', the local
\* row with pending_sync = 0 and sync_status = 'synced', and the record in the
\* remote store.
C15_OfflineCreateSynced ==
    [][\A c \in Callers :
        (/\ ret'.op = "sync_step" /\ ret'.caller = c /\ ret'.operation = "create"
         /\ pc[c] = "run" /\ work[c] # << >>
         /\ Head(work[c]).local_data # None
         /\ online /\ remote[ret'.record_id] = None
         /\ ~SyncStepLost(c)) =>
            LET r == ret'.record_id
                op == Head(work[c])
            IN /\ QStatus(queue', op.id) = "synced"
               /\ local[r] # None =>
                     /\ local'[r] # None
                     /\ local'[r][1].pending_sync = 0
                     /\ local'[r][1].sync_status = "synced"
               /\ remote'[r] = Some(Stored(clean_data(op.local_data[1])))]_vars

\* the create of a record created offline has just been accepted
C15_Witness ==
    /\ ret.op = "sync_step"
    /\ ret.operation = "create"
    /\ ret.outcome = "ok"
    /\ QStatus(queue, ret.id) = "synced"
    /\ local[ret.record_id] # None
    /\ local[ret.record_id][1].pending_sync = 0
    /\ remote[ret.record_id] # None

\* C16: a pending 'update' whose snapshot is older than the remote record is not
\* sent: the pass marks the entry 'conflict' with the remote record attached and
\* get_conflicts() returns it; resolve_conflict(id, 'remote') on it then replaces
\* the local row by the current remote record, marks the entry 'synced' and returns True.
C16_ConflictScenario ==
    [][/\ \A c \in Callers :
            (/\ ret'.op = "sync_step" /\ ret'.caller = c /\ ret'.operation = "update"
             /\ pc[c] = "run" /\ work[c] # << >>
             /\ Head(work[c]).local_data # None
             /\ online /\ remote[ret'.record_id] # None
             /\ Head(work[c]).local_data[1].updated_at.t
                    < remote[ret'.record_id][1].updated_at.t) =>
                LET op == Head(work[c])
                IN /\ ret'.outcome = "conflict"
                   /\ remote' = remote
                   /\ log'[c] = log[c]
                   /\ QStatus(queue', op.id) = "conflict"
                   /\ QEntry(queue', op.id).remote_data = remote[op.record_id]
                   /\ \E i \in 1..Len(get_conflicts(queue')) :
                         get_conflicts(queue')[i].id = op.id
       /\ \A id \in QIds(queue) :
            (/\ ret'.op = "resolve_conflict" /\ ret'.queue_id = id
             /\ ret'.resolution = "remote"
             /\ QStatus(queue, id) = "conflict"
             /\ online /\ remote[QEntry(queue, id).record_id] # None) =>
                LET r == QEntry(queue, id).record_id
                IN /\ ret'.ok
                   /\ local'[r] = Some(RowOf(remote[r][1]))
                   /\ QStatus(queue', id) = "synced"]_vars

\* C13: an offline local write and its queue entry are one atomic step: no local
\* row carries pending_sync = 1 while no non-synced queue entry exists for its
\* (table, record_id).
C13_WriteAndEntryAtomic ==
    \A id \in Ids :
        (local[id] # None /\ local[id][1].pending_sync = 1) =>
            \E i \in 1..Len(queue) : /\ queue[i].table_name = "clients"
                                      /\ queue[i].record_id = id
                                      /\ queue[i].status # "synced"

\* C17: a sync_all() call made while is_syncing is True (force not set) returns
\* 'busy' without reading or changing the queue, the local tables or the remote
\* store, and leaves is_syncing True.
C17_BusyTouchesNothing ==
    [][(ret'.op = "sync_all" /\ ret'.status = "busy") =>
        /\ is_syncing
        /\ is_syncing'
        /\ UNCHANGED <<queue, local, remote, audit, pc, work, log>>]_vars

\* a call has just returned 'busy' while a pass with operations left is running
C17_Witness ==
    /\ ret = [op |-> "sync_all", status |-> "busy"]
    /\ is_syncing
    /\ \E c \in Callers : pc[c] = "run" /\ work[c] # << >>

\* C18: every sync_all call that passed the guard has reset is_syncing to False
\* when it returns: after an empty fetch, a normal pass, a batch that raised and
\* a fetch that raised.
C18_FlagResetOnReturn ==
    [][\A c \in Callers : (Inside(c) /\ ~Inside(c)') => ~is_syncing']_vars

\* a call whose fetch raised has just returned
C18_Witness ==
    /\ ret = [op |-> "sync_all", status |-> "error"]
    /\ \A c \in Callers : pc[c] = "idle"
    /\ ~is_syncing

\* C19: resolve_conflict with a resolution other than 'local', 'remote' or 'merge',
\* or with 'merge' and no merged data, returns False and changes nothing: the entry
\* stays 'conflict' and neither the local row nor the remote record is written.
C19_InvalidResolutionNoEffect ==
    [][\A id \in QIds(queue) :
        (/\ ret'.op = "resolve_conflict" /\ ret'.queue_id = id
         /\ QStatus(queue, id) = "conflict"
         /\ \/ ret'.resolution \notin {"local", "remote", "merge"}
            \/ ret'.resolution = "merge" /\ ~ret'.with_data) =>
            /\ ~ret'.ok
            /\ QStatus(queue', id) = "conflict"
            /\ UNCHANGED <<queue, local, remote, audit>>]_vars

\* a resolve_conflict call with an unknown resolution has just returned for a conflict entry
C19_Witness ==
    /\ ret.op = "resolve_conflict"
    /\ ret.resolution = "other"
    /\ ~ret.ok
    /\ QStatus(queue, ret.queue_id) = "conflict"

\* C12: replaying a 'create' entry whose insert the remote store has already
\* applied leaves one remote row with unchanged data, and the queue entry and the
\* local row end 'synced'.
C12_CreateReplay ==
    [][\A c \in Callers :
        (/\ ret'.op = "sync_step" /\ ret'.caller = c /\ ret'.operation = "create"
         /\ pc[c] = "run" /\ work[c] # << >>
         /\ Head(work[c]).local_data # None
         /\ online /\ remote[ret'.record_id] # None) =>
            LET r == ret'.record_id
                op == Head(work[c])
            IN /\ remote'[r] = remote[r]
               /\ QStatus(queue', op.id) = "synced"
               /\ local[r] # None =>
                     /\ local'[r] # None
                     /\ local'[r][1].pending_sync = 0
                     /\ local'[r][1].sync_status = "synced"]_vars

\* C14: when the LocalCache mutation of an offline create, update or delete fails,
\* the domain operation reports failure, the local table is unchanged and no
\* sync_queue entry for the operation exists afterwards.
C14_LocalFailureLeavesNothing ==
    [][(/\ ret'.op \in {"create", "update", "delete"}
        /\ "local_failed" \in DOMAIN ret'
        /\ ret'.local_failed
        /\ ret'.offline) =>
            /\ ~ret'.ok
            /\ local' = local
            /\ queue' = queue]_vars

\* C20: every call of auto_resolve_conflict hands the entry to resolve_conflict, with
\* 'remote' when the descriptor's remote timestamp is strictly later than its local
\* one and with 'local' otherwise (equal timestamps included), never with 'merge'.
C20_LastWriteWins ==
    (ret.op \in {"resolve_conflict", "auto_resolve_conflict"} /\ ret.auto) =>
        /\ ret.op = "resolve_conflict"
        /\ ret.resolution = IF ret.remote_updated.t > ret.local_updated.t
                            THEN "remote" ELSE "local"

\* the same on descriptors whose two timestamps have the same form
C20_ComparableOnly ==
    (ret.op \in {"resolve_conflict", "auto_resolve_conflict"} /\ ret.auto
        /\ ret.local_updated.aware = ret.remote_updated.aware) =>
        /\ ret.op = "resolve_conflict"
        /\ ret.resolution = IF ret.remote_updated.t > ret.local_updated.t
                            THEN "remote" ELSE "local"

C20_LocalChosen == ret.op = "resolve_conflict" /\ ret.auto /\ ret.resolution = "local"

C20_RemoteChosen == ret.op = "resolve_conflict" /\ ret.auto /\ ret.resolution = "remote"

NoPending == \A i \in 1..Len(queue) : queue[i].status # "pending"

\* C11: if from some point on the remote store stays reachable, then under repeated
\* sync_all passes every 'pending' queue entry is eventually 'synced', 'conflict' or
\* removed, and stays so once no further operation is queued.
C11_PendingEventuallySettled == (<>[]online) => <>[]NoPending

\* C21: after resolve_conflict(id, 'merge', data) has returned True the remote record
\* and the local row of the entry's record_id both carry the merged data, the entry
\* is 'synced' and every other local row is as it was.
C21_MergeApplied ==
    [][(/\ ret'.op = "resolve_conflict" /\ ~ret'.auto
        /\ ret'.resolution = "merge" /\ ret'.ok) =>
            LET r == QEntry(queue, ret'.queue_id).record_id
                d == clean_data(ret'.data[1])
            IN /\ remote'[r] # None
               /\ \A k \in DOMAIN d : /\ k \in DOMAIN remote'[r][1]
                                      /\ remote'[r][1][k] = Stored(d)[k]
               /\ local'[r] # None
               /\ \A k \in (DOMAIN d) \cap (DOMAIN local'[r][1]) : local'[r][1][k] = d[k]
               /\ QStatus(queue', ret'.queue_id) = "synced"
               /\ \A o \in Ids \ {r} : local'[o] = local[o]]_vars

\* C22: when the remote audit sink raises, log_conflict stores the entry in the local
\* conflict_audit table marked pending and still returns the audit id.
C22_AuditFallback ==
    [][(ret'.op = "log_conflict" /\ ret'.sink_raised) =>
            /\ ret'.returned
            /\ Len(audit') = Len(audit) + 1
            /\ audit'[Len(audit')].pending_sync = 1]_vars

\* the caller has set is_syncing and not yet reset it, or is inside sync_table
InPass(c) == pc[c] \in {"run", "failed", "table"}

\* the part of C24 about the entries: none is sent by both of two overlapping passes
C24_NoDoubleSend ==
    \A c1, c2 \in Callers :
        (c1 # c2 /\ InPass(c1) /\ InPass(c2)) =>
            {log[c1][i].id : i \in 1..Len(log[c1])}
                \cap {log[c2][i].id : i \in 1..Len(log[c2])} = {}

\* C24: sync_table honours the is_syncing guard: it runs no batch while a sync_all
\* pass is in progress, so no queue entry is sent to the remote store by two passes
\* that overlap.
C24_TableCallGuarded ==
    /\ Cardinality({c \in Callers : InPass(c)}) <= 1
    /\ C24_NoDoubleSend

\* position of an operation type in BatchSync.sync_table
TypeRank(operation) ==
    IF operation = "create" THEN 1 ELSE IF operation = "update" THEN 2 ELSE 3

\* C25: among the remote calls of one sync_table call, every call for a 'create'
\* comes before every call for an 'update', and every call for an 'update' before
\* every call for a 'delete'.
C25_CreatesUpdatesDeletes ==
    \A c \in Callers : \A i, j \in 1..Len(log[c]) :
        i < j => TypeRank(log[c][i].operation) <= TypeRank(log[c][j].operation)

\* a pass has sent a create, an update and a delete
C25_Witness ==
    \E i, j, k \in 1..Len(log["t1"]) :
        /\ log["t1"][i].operation = "create"
        /\ log["t1"][j].operation = "update"
        /\ log["t1"][k].operation = "delete"

\* C26: get_pending_operations returns the pending entries in the order they were
\* enqueued, whatever the table filter and the limit, and within the creates, the
\* updates and the deletes a pass sends the entries in that order.
C26_InsertionOrder ==
    /\ \A table \in {"", "clients"}, limit \in 0..MaxQueue :
          LET ops == get_pending_operations(queue, table, limit)
          IN \A i, j \in 1..Len(ops) : i < j => ops[i].id < ops[j].id
    /\ \A c \in Callers : \A i, j \in 1..Len(log[c]) :
          (i < j /\ log[c][i].operation = log[c][j].operation) => log[c][i].id < log[c][j].id

\* a pass has sent two entries of the same operation type
C26_Witness ==
    \E i, j \in 1..Len(log["t1"]) :
        /\ i < j
        /\ log["t1"][i].operation = log["t1"][j].operation
        /\ Len(get_pending_operations(queue, "", 0)) >= 1

C27_WitnessRemoved ==
    /\ ret.op = "sync_step" /\ ret.operation = "delete" /\ ret.outcome = "ok"
    /\ ret.id \notin QIds(queue)

C29_NoBookkeepingRemote ==
    \A id \in Ids : remote[id] # None => (DOMAIN remote[id][1]) \cap sync_fields = {}

\* a pass has just sent an entry whose snapshot contains bookkeeping fields
C29_Witness ==
    /\ ret.op = "sync_step" /\ ret.outcome = "ok" /\ ret.operation \in {"create", "update"}
    /\ ret.id \in QIds(queue)
    /\ QEntry(queue, ret.id).local_data # None
    /\ (DOMAIN QEntry(queue, ret.id).local_data[1]) \cap sync_fields # {}
    /\ remote[ret.record_id] # None

\* resolve 'local' has just written such a snapshot to the remote store
C29_WitnessResolve ==
    /\ ret.op = "resolve_conflict" /\ ret.ok /\ ret.resolution = "local"
    /\ QEntry(queue, ret.queue_id).local_data # None
    /\ (DOMAIN QEntry(queue, ret.queue_id).local_data[1]) \cap sync_fields # {}

\* C30: check_conflict places the snapshot's updated_at (no offset) and the remote
\* record's updated_at (with or without offset) on one timeline: for every queued
\* snapshot whose remote record exists and can be fetched it reports a conflict if
\* and only if the remote instant is strictly later than the local one.
C30_SameTimeline ==
    \A i \in 1..Len(queue) :
        LET e == queue[i]
        IN (online /\ e.local_data # None /\ remote[e.record_id] # None) =>
              ((check_conflict(e.record_id, e.local_data[1]) # None)
                  <=> (remote[e.record_id][1].updated_at.t > e.local_data[1].updated_at.t))

RECURSIVE SumOver(_, _, _)
\* the sum of f(by_table[i], outcomes[i]) over the first k tables
SumOver(f(_, _), bt, k) ==
    IF k = 0 THEN 0 ELSE f(bt[k], ret.outcomes[k]) + SumOver(f, bt, k - 1)

\* C28: a batch that raises does not stop the loop over the tables: every table is
\* processed, all operations of a table whose batch raised count as failed with one
\* error string, and the returned totals are the sums of the per-table results.
C28_TotalsAreSums ==
    (ret.op = "sync_all" /\ ret.status = "totals") =>
        LET bt == ret.by_table
            k == Len(bt)
            synced(b, o) == IF o.raised THEN 0 ELSE o.synced
            failed(b, o) == IF o.raised THEN b.n ELSE o.failed
            conflicts(b, o) == IF o.raised THEN 0 ELSE o.conflicts
            errors(b, o) == IF o.raised THEN 1 ELSE o.errors
        IN /\ Len(ret.outcomes) = k
           /\ ret.results.synced = SumOver(synced, bt, k)
           /\ ret.results.failed = SumOver(failed, bt, k)
           /\ ret.results.conflicts = SumOver(conflicts, bt, k)
           /\ ret.results.errors = SumOver(errors, bt, k)

\* sync_all has returned after the batch of its first table raised and the batch of
\* its second table synced an operation
C28_Witness ==
    /\ ret.op = "sync_all" /\ ret.status = "totals"
    /\ Len(ret.by_table) = 2
    /\ ret.by_table[1].n = 2
    /\ ret.outcomes[1].raised
    /\ ~ret.outcomes[2].raised /\ ret.outcomes[2].synced >= 1
    /\ ret.results.failed >= 2 /\ ret.results.synced >= 1

\* the thread is about to execute conn.commit() or conn.rollback()
Ending(th) ==
    tpc[th] \in {"w_commit1", "w_commit2", "w_rollback",
                 "s_commit1", "s_commit2", "s_commit3", "s_rollback"}

\* C23: a domain write and a sync pass that interleave on the shared local store do
\* not disturb each other: a commit or rollback of one thread never publishes or
\* discards uncommitted statements of the other, and a domain write that returns
\* success has its row and its queue entry in the store.
C23_TransactionsIsolated ==
    [][/\ \A th \in Threads :
            (Ending(th) /\ tpc'[th] # tpc[th]) => conn.dirty \subseteq {th}
       /\ (ret'.op \in {"create", "update"} /\ "thread" \in DOMAIN ret' /\ ret'.ok) =>
            /\ local'[ret'.id] # None
            /\ local'[ret'.id][1].val = ret'.val
            /\ \E i \in 1..Len(queue') : /\ queue'[i].record_id = ret'.id
                                         /\ queue'[i].operation = ret'.op
                                         /\ queue'[i].local_data # None
                                         /\ queue'[i].local_data[1].val = ret'.val]_vars

\* C34: whenever resolve_conflict has returned True the queue entry is 'synced',
\* whatever the resolution and whatever the remote store holds.
C34_TrueMeansSynced ==
    (ret.op = "resolve_conflict" /\ ret.ok) => QStatus(queue, ret.queue_id) = "synced"

\* C35: resolve_conflict called with the id of an entry that is 'pending' or 'synced'
\* writes nothing to the remote store or the local store and returns False.
C35_OnlyConflictEntries ==
    [][(/\ ret'.op = "resolve_conflict"
        /\ ret'.queue_id \in QIds(queue)
        /\ QStatus(queue, ret'.queue_id) \in {"pending", "synced"}) =>
            /\ ~ret'.ok
            /\ remote' = remote
            /\ local' = local
            /\ queue' = queue]_vars

\* C38: auto_resolve_conflict applied to the descriptor check_conflict returned for a
\* queue entry returns True and leaves that entry 'synced' (the remote store is
\* reachable: check_conflict has just fetched the record).
C38_ResolvesCheckedEntry ==
    (ret.op = "auto_resolve_checked") =>
        /\ ret.ok
        /\ QStatus(queue, ret.queue_id) = "synced"

\* updated_at is missing from the dictionary or is a string that does not parse
BadStamp(d) == "updated_at" \notin DOMAIN d \/ ~Parses(d.updated_at)

\* C31: when the snapshot of an update entry or the remote record has a missing or
\* unparsable updated_at, check_conflict returns None and the batch step sends the local
\* update: the entry is not marked 'conflict' and the remote record takes the snapshot's
\* columns.
C31_BadStampNoConflict ==
    [][(/\ pc["t1"] = "run" /\ work["t1"] # << >>
        /\ ret'.op = "sync_step"
        /\ Head(work["t1"]).operation = "update"
        /\ Head(work["t1"]).local_data # None
        /\ online /\ remote[Head(work["t1"]).record_id] # None
        /\ \/ BadStamp(Head(work["t1"]).local_data[1])
           \/ BadStamp(remote[Head(work["t1"]).record_id][1])) =>
            LET op == Head(work["t1"])
            IN /\ check_conflict(op.record_id, op.local_data[1]) = None
               /\ ret'.outcome \in Sends
               /\ log'["t1"] = Append(log["t1"], [id |-> op.id, record_id |-> op.record_id,
                                                  operation |-> "update"])
               /\ QStatus(queue', op.id) # "conflict"
               /\ remote'[op.record_id][1].val = op.local_data[1].val]_vars

\* an update whose snapshot has no usable updated_at was sent and accepted
C31_Witness ==
    /\ ret.op = "sync_step" /\ ret.operation = "update" /\ ret.outcome = "ok"
    /\ ret.id \in QIds(queue)
    /\ QEntry(queue, ret.id).local_data # None
    /\ BadStamp(QEntry(queue, ret.id).local_data[1])
    /\ remote[ret.record_id] # None

\* the columns of sync_queue as _initialize_database creates the table
sync_queue_schema ==
    {"id", "table_name", "record_id", "operation", "local_data", "remote_data", "status",
     "created_at", "synced_at"}

\* the columns of the sync_queue table of the database file in use
sync_queue_columns ==
    IF schemaOk THEN sync_queue_schema \cup {"updated_at"} ELSE sync_queue_schema

\* the columns of the INSERT that add_operation causes: the keys of queue_item and the
\* id, created_at and updated_at that LocalCache.insert sets
add_operation_columns ==
    {"id", "table_name", "record_id", "operation", "local_data", "remote_data", "status",
     "created_at"} \cup {"id", "created_at", "updated_at"}

\* the columns of the UPDATE that mark_synced / mark_conflict cause: the keys of
\* update_data and the updated_at that LocalCache.update sets
mark_synced_columns == {"status", "synced_at"} \cup {"updated_at"}

mark_conflict_columns == {"status", "remote_data"} \cup {"updated_at"}

\* C32: every column that add_operation, mark_synced and mark_conflict write is a column
\* of sync_queue, so an offline domain write that has queued its operation returns
\* success and its entry is in the queue.
C32_QueueWritesFitSchema ==
    (ret.op \in {"create", "update"} /\ ret.offline) =>
        /\ (add_operation_columns \cup mark_synced_columns \cup mark_conflict_columns)
                \subseteq sync_queue_columns
        /\ ret.ok
        /\ \E i \in 1..Len(queue) : /\ queue[i].record_id = ret.id
                                      /\ queue[i].operation = ret.op

\* the pending 'delete' entries of a record
PendingDeletes(q, id) ==
    {i \in 1..Len(q) : /\ q[i].table_name = "clients" /\ q[i].record_id = id
                       /\ q[i].operation = "delete" /\ q[i].status = "pending"}

\* C33: an offline ClientManager.delete that succeeds adds exactly one pending 'delete'
\* entry for the record to the queue.
C33_OneDeleteEntry ==
    [][(ret'.op = "delete" /\ ret'.offline /\ ret'.ok /\ queue' # queue) =>
            /\ Len(queue') = Len(queue) + 1
            /\ Cardinality(PendingDeletes(queue', ret'.id)) =
                    Cardinality(PendingDeletes(queue, ret'.id)) + 1]_vars

\* C36: the dictionary BatchSync.sync_table returns counts every operation it was given
\* exactly once: synced + failed + conflicts equals the number of operations.
C36_EveryOperationCounted ==
    (ret.op = "batch_sync_table" /\ ret.status = "returned") =>
        ret.results.synced + ret.results.failed + ret.results.conflicts = ret.operations

\* C37: is_syncing is True whenever a sync_all call has set the flag and has not yet
\* reached its finally block, a call made with force=True during another pass included.
C37_FlagCoversEveryPass ==
    (\E c \in Callers : pc[c] \in {"run", "failed"}) => is_syncing

====
